---- MODULE Spec2Model ----
(***************************************************************************)
(* Model of the multilingual summarizer CLI (src/src/main.py):             *)
(*   load_text, detect_language, summarize_text and the driver main().     *)
(* Strings are sequences of characters.  The external libraries            *)
(* (langdetect, transformers, pdfplumber) are environments whose answers   *)
(* are chosen nondeterministically; the Python built-ins the code calls    *)
(* (open in text mode, str.strip, str.lower, str.endswith, int, float      *)
(* arithmetic, argparse) are modelled by what they do.                     *)
(***************************************************************************)
EXTENDS Integers, Sequences, FiniteSets, TLC

VARIABLES
    pc,        \* control position of the running function
    argv,      \* parsed / to-be-parsed command line: input, language, compression, output
    fs,        \* file system: path -> file object
    fs0,       \* the file system when the process started
    linesep,   \* os.linesep of the platform the process runs on
    text,      \* document text (main) or the text argument (direct calls)
    lang,      \* resolved language code
    summary,   \* value returned by summarize_text
    stdout,    \* lines printed so far
    exitCode,  \* process exit status, Running until the process exits
    calls,     \* how often each function / library entry point was invoked
    ret,       \* what load_text returned or raised
    sret,      \* what summarize_text returned or raised
    heur,      \* what the language-identification heuristic answered
    lens       \* summarize_text locals: input_len, target_len, max_len, min_len
vars == <<pc, argv, fs, fs0, linesep, text, lang, summary, stdout, exitCode,
          calls, ret, sret, heur, lens>>

None == "None"
Running == 0 - 1      \* exitCode while the process has not exited
Unset == 0 - 1        \* a local that has not been assigned

\* ------------------------------------------------------------------ bounds
MaxLen == 2        \* longest file content / text, in characters
MaxPages == 1      \* most pages of a modelled PDF document
MaxTokens == 1100  \* largest untruncated token count the tokenizer reports

\* ------------------------------------------------------------- characters
CR == "\r"
LF == "\n"
SP == " "
BAD == "0xFF"      \* a byte that is not valid UTF-8
Bytes == {"a", SP, CR, LF, BAD}
Chars == {"a", SP, CR, LF}
Whitespace == {SP, CR, LF}

SeqsUpTo(S, n) == UNION {[1..k -> S] : k \in 0..n}

RECURSIVE universal_newlines(_)
\* open(..., 'r') with newline=None: "\r\n" and a lone "\r" are read as "\n"
universal_newlines(s) ==
    IF s = <<>> THEN <<>>
    ELSE IF Head(s) = CR
         THEN IF Len(s) >= 2 /\ s[2] = LF
              THEN <<LF>> \o universal_newlines(SubSeq(s, 3, Len(s)))
              ELSE <<LF>> \o universal_newlines(Tail(s))
         ELSE <<Head(s)>> \o universal_newlines(Tail(s))

RECURSIVE write_newlines(_, _)
\* open(..., 'w') with newline=None: each "\n" is written as os.linesep
write_newlines(s, sep) ==
    IF s = <<>> THEN <<>>
    ELSE (IF Head(s) = LF THEN sep ELSE <<Head(s)>>) \o write_newlines(Tail(s), sep)

RECURSIVE lstrip(_)
lstrip(s) == IF s # <<>> /\ Head(s) \in Whitespace THEN lstrip(Tail(s)) ELSE s

RECURSIVE rstrip(_)
rstrip(s) ==
    IF s # <<>> /\ s[Len(s)] \in Whitespace THEN rstrip(SubSeq(s, 1, Len(s) - 1)) ELSE s

\* str.strip()
strip(s) == rstrip(lstrip(s))

\* str.lower() on the letters that occur in the modelled paths
LowerChar(c) ==
    CASE c = "T" -> "t" [] c = "X" -> "x" [] c = "P" -> "p"
      [] c = "D" -> "d" [] c = "F" -> "f" [] OTHER -> c
lower(s) == [i \in 1..Len(s) |-> LowerChar(s[i])]

\* str.endswith(suffix)
endswith(s, suffix) ==
    /\ Len(s) >= Len(suffix)
    /\ SubSeq(s, Len(s) - Len(suffix) + 1, Len(s)) = suffix

DotTxt == <<".", "t", "x", "t">>
DotPdf == <<".", "p", "d", "f">>

\* ------------------------------------------------------------ file system
InputPaths == { <<"a", ".", "t", "x", "t">>,  <<"a", ".", "T", "x", "T">>,
                <<"a", ".", "p", "d", "f">>,  <<"a", ".", "P", "D", "F">>,
                <<"a", ".", "m", "d">>,       <<"t", "x", "t">> }
OutPath == <<"o", ".", "t", "x", "t">>
Paths == InputPaths \cup {OutPath}

\* a file object: its kind, its bytes, and what a PDF parser makes of it
\* (not a PDF document, or the extract_text() result of each page)
FileObj(k, b, d, p) == [kind |-> k, bytes |-> b, is_pdf |-> d, pages |-> p]
NoFile == FileObj("absent", <<>>, FALSE, <<>>)
Dir == FileObj("dir", <<>>, FALSE, <<>>)
PlainFile(b) == FileObj("file", b, FALSE, <<>>)
PdfFile(pages) == FileObj("file", <<BAD>>, TRUE, pages)
NoText == [none |-> TRUE, text |-> <<>>]           \* extract_text() returned None
PageText(t) == [none |-> FALSE, text |-> t]
PageTexts == {NoText, PageText(<<>>), PageText(<<"a">>), PageText(<<SP>>)}
PlainFiles == {PlainFile(b) : b \in SeqsUpTo(Bytes, MaxLen)}
PdfFiles == {PdfFile(p) : p \in SeqsUpTo(PageTexts, MaxPages)}
FileObjects == {NoFile, Dir} \cup PlainFiles \cup PdfFiles

\* os.path.isfile
isfile(f, p) == f[p].kind = "file"

Ok(v) == [ok |-> TRUE, value |-> v]
Raise(e) == [ok |-> FALSE, error |-> e]
NoResult == Raise("nothing yet")

RECURSIVE extract_pages(_)
\* text = ""; for page in pdf.pages: text += page.extract_text() or ""
extract_pages(pages) ==
    IF pages = <<>> THEN <<>>
    ELSE (IF Head(pages).none THEN <<>> ELSE Head(pages).text) \o extract_pages(Tail(pages))

\* open(file_path, 'r', encoding='utf-8').read()
read_text(b) ==
    IF \E i \in 1..Len(b) : b[i] = BAD
    THEN Raise("UnicodeDecodeError")
    ELSE Ok(universal_newlines(b))

\* pdfplumber.open(file_path) and the page loop
read_pdf(file) ==
    IF ~file.is_pdf THEN Raise("PDFSyntaxError") ELSE Ok(extract_pages(file.pages))

load_text_lowercases_nothing(f, file_path) ==
    IF ~isfile(f, file_path) THEN Raise("FileNotFoundError")
    ELSE IF endswith(file_path, DotTxt) THEN read_text(f[file_path].bytes)
    ELSE IF endswith(file_path, DotPdf) THEN read_pdf(f[file_path])
    ELSE Raise("ValueError")

load_text(f, file_path) ==
    IF ~isfile(f, file_path) THEN Raise("FileNotFoundError")
    ELSE IF endswith(lower(file_path), DotTxt) THEN read_text(f[file_path].bytes)
    ELSE IF endswith(lower(file_path), DotPdf) THEN read_pdf(f[file_path])
    ELSE Raise("ValueError")

\* ------------------------------------------------- IEEE-754 double arithmetic
\* A non-negative real in binary fixed point: the bits of its integer part and
\* of its fraction (most significant first), and whether more follows.
\* Long numbers are handled in 16-bit limbs, so that every intermediate value
\* stays a small integer.
Fixed(i, f, s) == [int |-> i, frac |-> f, sticky |-> s]

MantissaBits == 53
LimbBase == 2 ^ 16

Zeros(n) == [i \in 1..n |-> 0]

\* the 16 bits of a limb, and back
Bits16(v) == [i \in 1..16 |-> (v \div 2 ^ (16 - i)) % 2]
Val16(b) ==
    b[1] * 32768 + b[2] * 16384 + b[3] * 8192 + b[4] * 4096 + b[5] * 2048 + b[6] * 1024
    + b[7] * 512 + b[8] * 256 + b[9] * 128 + b[10] * 64 + b[11] * 32 + b[12] * 16
    + b[13] * 8 + b[14] * 4 + b[15] * 2 + b[16]

\* a bit string padded on the left to n bits
PadLeft(b, n) == IF Len(b) < n THEN Zeros(n - Len(b)) \o b ELSE b

\* the 32 bits of an integer below 2^31, and the value of a bit string below 2^31
ToBits(n) == Bits16(n \div LimbBase) \o Bits16(n % LimbBase)
FromBits(b) ==
    LET p == PadLeft(b, 32)
        n == Len(p)
    IN  Val16(SubSeq(p, n - 31, n - 16)) * LimbBase + Val16(SubSeq(p, n - 15, n))

\* the bit string plus one (the callers keep a leading 0, so it never overflows)
Inc(b) ==
    LET zeros == {i \in 1..Len(b) : b[i] = 0}
        j == CHOOSE i \in zeros : \A k \in zeros : k <= i
    IN  [i \in 1..Len(b) |-> IF i < j THEN b[i] ELSE IF i = j THEN 1 ELSE 0]

\* the exact quotient a/b (b below 2^15), to 64 fraction bits and a sticky flag:
\* long division, one limb of the quotient at a time
div_exact(a, b) ==
    LET r0 == a % b
        q1 == (r0 * LimbBase) \div b
        r1 == (r0 * LimbBase) % b
        q2 == (r1 * LimbBase) \div b
        r2 == (r1 * LimbBase) % b
        q3 == (r2 * LimbBase) \div b
        r3 == (r2 * LimbBase) % b
        q4 == (r3 * LimbBase) \div b
        r4 == (r3 * LimbBase) % b
    IN  Fixed(ToBits(a \div b), Bits16(q1) \o Bits16(q2) \o Bits16(q3) \o Bits16(q4), r4 # 0)

\* the exact product of the integer m (below 2^15) and the double y (its last
\* 64 bits hold its value): schoolbook multiplication, one limb of y at a time
mul_exact(m, y) ==
    LET F == Len(y.frac)
        yb == PadLeft(y.int \o y.frac, 64)
        b == SubSeq(yb, Len(yb) - 63, Len(yb))    \* the bits before them are 0
        t4 == m * Val16(SubSeq(b, 49, 64))
        t3 == m * Val16(SubSeq(b, 33, 48)) + t4 \div LimbBase
        t2 == m * Val16(SubSeq(b, 17, 32)) + t3 \div LimbBase
        t1 == m * Val16(SubSeq(b, 1, 16)) + t2 \div LimbBase
        p == Bits16(t1 \div LimbBase) \o Bits16(t1 % LimbBase) \o Bits16(t2 % LimbBase)
             \o Bits16(t3 % LimbBase) \o Bits16(t4 % LimbBase)
    IN  Fixed(SubSeq(p, 1, 80 - F), SubSeq(p, 80 - F + 1, 80), FALSE)

\* round to nearest, ties to even, keeping MantissaBits significant bits
round_to_double(x) ==
    LET L == Len(x.int) + 1
        all == <<0>> \o x.int \o x.frac
        ones == {i \in 1..Len(all) : all[i] = 1}
    IN  IF ones = {} THEN Fixed(<<>>, <<>>, FALSE)
        ELSE LET lead == CHOOSE i \in ones : \A j \in ones : i <= j
                 last == lead + MantissaBits - 1
                 padded == IF Len(all) < last + 1
                           THEN all \o Zeros(last + 1 - Len(all)) ELSE all
                 guard == padded[last + 1]
                 rest == x.sticky \/ \E i \in (last + 2)..Len(padded) : padded[i] = 1
                 up == guard = 1 /\ (rest \/ padded[last] = 1)
                 kept == SubSeq(padded, 1, last)
                 rounded == IF up THEN Inc(kept) ELSE kept
                 r2 == IF last < L THEN rounded \o Zeros(L - last) ELSE rounded
             IN  Fixed(SubSeq(r2, 1, L), SubSeq(r2, L + 1, Len(r2)), FALSE)

\* a / b on Python ints: the correctly rounded double
true_div(a, b) == round_to_double(div_exact(a, b))

\* m * y for an int m and a float y
float_mul(m, y) == round_to_double(mul_exact(m, y))

\* int(x) of a non-negative float: truncation toward zero
int_of(x) == FromBits(x.int)

\* the literal 0.7: the double nearest to 7/10
Literal_0_7 == true_div(7, 10)

\* ------------------------------------------------------------ the program
SUPPORTED_LANGS == {"en", "ru", "de"}

LANG_MAP == [l \in SUPPORTED_LANGS |->
                CASE l = "en" -> "english" [] l = "ru" -> "russian" [] l = "de" -> "german"]

Line(tag, arg) == [line |-> tag, arg |-> arg]

\* answers of langdetect.detect: a language code, or an exception
HeuristicCodes == {"en", "ru", "de", "fr", "uk"}
HeuristicOutcomes == {Ok(c) : c \in HeuristicCodes} \cup {Raise("LangDetectException")}

detect_language_returns_raw(outcome) ==
    LET detected == IF outcome.ok THEN outcome.value ELSE "en"
    IN  IF detected \notin SUPPORTED_LANGS
        THEN [lang |-> detected, out |-> <<Line("fallback_warning", <<detected>>)>>]
        ELSE [lang |-> detected, out |-> <<>>]

detect_language_warns_on_raise(outcome) ==
    LET detected == IF outcome.ok THEN outcome.value ELSE "en"
    IN  IF detected \notin SUPPORTED_LANGS \/ ~outcome.ok
        THEN [lang |-> "en", out |-> <<Line("fallback_warning", <<detected>>)>>]
        ELSE [lang |-> detected, out |-> <<>>]

\* detect_language, given what detect(text) did: the code returned and the lines printed
detect_language(outcome) ==
    LET detected == IF outcome.ok THEN outcome.value ELSE "en"
    IN  IF detected \notin SUPPORTED_LANGS
        THEN [lang |-> "en", out |-> <<Line("fallback_warning", <<detected>>)>>]
        ELSE [lang |-> detected, out |-> <<>>]

EmptyIndicator == <<"E", "M", "P", "T", "Y">>     \* the literal "Пустой текст"

Max(a, b) == IF a >= b THEN a ELSE b
Min(a, b) == IF a <= b THEN a ELSE b

target_len_rounds(input_len, compression) ==
    Max(30, (input_len * compression + 50) \div 100)

\* target_len = max(30, int(input_len * compression / 100))
target_len_of(input_len, compression) ==
    Max(30, int_of(true_div(input_len * compression, 100)))

max_len_uncapped(target_len) == target_len

\* max_len = min(512, target_len)
max_len_of(target_len) == Min(512, target_len)

\* min_len = max(20, int(max_len * 0.7))
min_len_of(max_len) == Max(20, int_of(float_mul(max_len, Literal_0_7)))

\* what tokenizer.decode can return
Summaries == {<<>>, <<"X">>, <<"X", LF, "Y">>}

\* what a call of summarize_text can do, as its caller sees it
SummarizeResults(t) ==
    IF strip(t) = <<>> THEN {Ok(EmptyIndicator)}
    ELSE {Ok(s) : s \in Summaries} \cup {Raise("ModelUnavailable")}

NoCalls == [load_text |-> 0, detect_language |-> 0, summarize_text |-> 0,
            tokenizer_load |-> 0, model_load |-> 0, generate |-> 0, write |-> 0]
NoLens == [input_len |-> Unset, target_len |-> Unset, max_len |-> Unset,
           min_len |-> Unset, gen_max_length |-> Unset, gen_min_length |-> Unset]
\* an optional command-line value: absent, or the string given
Absent == [given |-> FALSE, value |-> <<>>]
Given(v) == [given |-> TRUE, value |-> v]
NoArgs == [input |-> <<>>, language |-> None, compression |-> Unset, output |-> Absent]

Called(name) == [calls EXCEPT ![name] = @ + 1]

\* -------------------------------------------------- load_text, called directly
InitLoader ==
    /\ pc = "load_text"
    /\ \E p \in InputPaths, file \in FileObjects :
          /\ argv = [NoArgs EXCEPT !.input = p]
          /\ fs = [q \in Paths |-> IF q = p THEN file ELSE NoFile]
    /\ fs0 = fs
    /\ linesep = <<LF>>
    /\ text = <<>> /\ lang = None /\ summary = <<>>
    /\ stdout = <<>> /\ exitCode = Running
    /\ calls = NoCalls /\ ret = NoResult /\ sret = NoResult /\ heur = NoResult
    /\ lens = NoLens

LoadTextCall ==
    /\ pc = "load_text"
    /\ ret' = load_text(fs, argv.input)
    /\ calls' = Called("load_text")
    /\ pc' = IF ret'.ok THEN "returned" ELSE "raised"
    /\ UNCHANGED <<argv, fs, fs0, linesep, text, lang,
                 summary, stdout, exitCode, sret, heur, lens>>

SpecLoader == InitLoader /\ [][LoadTextCall]_vars

\* -------------------------------------------- detect_language, called directly
Texts == SeqsUpTo(Chars, MaxLen)

InitDetector ==
    /\ pc = "detect_language"
    /\ text \in Texts
    /\ argv = NoArgs
    /\ fs = [q \in Paths |-> NoFile] /\ fs0 = fs
    /\ linesep = <<LF>>
    /\ lang = None /\ summary = <<>>
    /\ stdout = <<>> /\ exitCode = Running
    /\ calls = NoCalls /\ ret = NoResult /\ sret = NoResult /\ heur = NoResult
    /\ lens = NoLens

DetectLanguageCall ==
    /\ pc = "detect_language"
    /\ \E outcome \in HeuristicOutcomes :
          /\ heur' = outcome
          /\ lang' = detect_language(outcome).lang
          /\ stdout' = stdout \o detect_language(outcome).out
    /\ calls' = Called("detect_language")
    /\ pc' = "returned"
    /\ UNCHANGED <<argv, fs, fs0, linesep, text, summary, exitCode, ret, sret, lens>>

SpecDetector == InitDetector /\ [][DetectLanguageCall]_vars

\* --------------------------------------------- summarize_text, called directly
SumTexts == {<<>>, <<SP>>, <<LF, SP>>, <<"a">>, <<SP, "a", LF>>}
SumLangs == SUPPORTED_LANGS \cup {"fr"}
SumCompressions == {20, 30, 50, 100}

InitSummarizer ==
    /\ pc = "summarize_text"
    /\ text \in SumTexts
    /\ lang \in SumLangs
    /\ \E c \in SumCompressions : argv = [NoArgs EXCEPT !.compression = c]
    /\ fs = [q \in Paths |-> NoFile] /\ fs0 = fs
    /\ linesep = <<LF>>
    /\ summary = <<>>
    /\ stdout = <<>> /\ exitCode = Running
    /\ calls = NoCalls /\ ret = NoResult /\ sret = NoResult /\ heur = NoResult
    /\ lens = NoLens

SumCheckBlank_never_returns_early ==
    /\ pc = "summarize_text"
    /\ calls' = Called("summarize_text")
    /\ pc' = "load_tokenizer"
    /\ UNCHANGED <<argv, fs, fs0, linesep, text, lang,
                 summary, stdout, exitCode, ret, sret, heur, lens>>

\* if not text.strip(): return "Пустой текст"
SumCheckBlank ==
    /\ pc = "summarize_text"
    /\ calls' = Called("summarize_text")
    /\ IF strip(text) = <<>>
       THEN sret' = Ok(EmptyIndicator) /\ pc' = "returned"
       ELSE sret' = sret /\ pc' = "load_tokenizer"
    /\ UNCHANGED <<argv, fs, fs0, linesep, text, lang,
                 summary, stdout, exitCode, ret, heur, lens>>

\* tokenizer = AutoTokenizer.from_pretrained(model_name)
SumLoadTokenizer ==
    /\ pc = "load_tokenizer"
    /\ calls' = Called("tokenizer_load")
    /\ \E loaded \in BOOLEAN :
          IF loaded THEN sret' = sret /\ pc' = "load_model"
          ELSE sret' = Raise("ModelUnavailable") /\ pc' = "raised"
    /\ UNCHANGED <<argv, fs, fs0, linesep, text, lang,
                 summary, stdout, exitCode, ret, heur, lens>>

\* model = AutoModelForSeq2SeqLM.from_pretrained(model_name)
SumLoadModel ==
    /\ pc = "load_model"
    /\ calls' = Called("model_load")
    /\ \E loaded \in BOOLEAN :
          IF loaded THEN sret' = sret /\ pc' = "tokenize"
          ELSE sret' = Raise("ModelUnavailable") /\ pc' = "raised"
    /\ UNCHANGED <<argv, fs, fs0, linesep, text, lang,
                 summary, stdout, exitCode, ret, heur, lens>>

\* inputs = tokenizer(text, ...); input_len = len(tokenizer.tokenize(text))
SumTokenize ==
    /\ pc = "tokenize"
    /\ \E n \in 0..MaxTokens : lens' = [lens EXCEPT !.input_len = n]
    /\ pc' = "lengths"
    /\ UNCHANGED <<argv, fs, fs0, linesep, text, lang,
                 summary, stdout, exitCode, calls, ret, sret, heur>>

\* target_len, max_len, min_len, one assignment after the other
SumLengths ==
    /\ pc = "lengths"
    /\ \E t \in {target_len_of(lens.input_len, argv.compression)} :
       \E mx \in {max_len_of(t)} :
       \E mn \in {min_len_of(mx)} :
          lens' = [lens EXCEPT !.target_len = t, !.max_len = mx, !.min_len = mn]
    /\ pc' = "generate"
    /\ UNCHANGED <<argv, fs, fs0, linesep, text, lang,
                 summary, stdout, exitCode, calls, ret, sret, heur>>

\* outputs = model.generate(..., max_length=max_len, min_length=min_len, ...)
SumGenerate ==
    /\ pc = "generate"
    /\ calls' = Called("generate")
    /\ lens' = [lens EXCEPT !.gen_max_length = lens.max_len, !.gen_min_length = lens.min_len]
    /\ \E generated \in BOOLEAN :
          IF generated THEN sret' = sret /\ pc' = "decode"
          ELSE sret' = Raise("GenerationError") /\ pc' = "raised"
    /\ UNCHANGED <<argv, fs, fs0, linesep, text, lang, summary, stdout, exitCode, ret, heur>>

\* summary = tokenizer.decode(outputs[0], skip_special_tokens=True); return summary
SumDecode ==
    /\ pc = "decode"
    /\ \E s \in Summaries : sret' = Ok(s)
    /\ pc' = "returned"
    /\ UNCHANGED <<argv, fs, fs0, linesep, text, lang,
                 summary, stdout, exitCode, calls, ret, heur, lens>>

NextSummarizer ==
    \/ SumCheckBlank
    \/ SumLoadTokenizer
    \/ SumLoadModel
    \/ SumTokenize
    \/ SumLengths
    \/ SumGenerate
    \/ SumDecode

SpecSummarizer == InitSummarizer /\ [][NextSummarizer]_vars

\* ----------------------------------------------------------- main(), the CLI
LanguageChoices == {"auto", "en", "ru", "de"}
CompressionChoices == {20, 30, 50}

\* what a user can type
LanguageArgs == LanguageChoices \cup {"fr"}
CompressionArgs == CompressionChoices \cup {40}
OutputArgs == {Absent, Given(<<>>), Given(OutPath)}
OldOutput == PlainFile(<<"o", "l", "d">>)

Init ==
    /\ pc = "parse_args"
    /\ \E p \in InputPaths, l \in LanguageArgs, c \in CompressionArgs, o \in OutputArgs :
          argv = [input |-> p, language |-> l, compression |-> c, output |-> o]
    /\ \E file \in FileObjects, old \in {NoFile, OldOutput} :
          fs = [q \in Paths |-> IF q = argv.input THEN file
                                ELSE IF q = OutPath THEN old ELSE NoFile]
    /\ fs0 = fs
    /\ linesep \in {<<LF>>, <<CR, LF>>}
    /\ text = <<>> /\ lang = None /\ summary = <<>>
    /\ stdout = <<>> /\ exitCode = Running
    /\ calls = NoCalls /\ ret = NoResult /\ sret = NoResult /\ heur = NoResult
    /\ lens = NoLens

Exit(code) == pc' = "exited" /\ exitCode' = code

ParseArgs_accepts_any_value ==
    /\ pc = "parse_args"
    /\ pc' = "load"
    /\ UNCHANGED <<argv, fs, fs0, linesep, text, lang, summary,
                 stdout, exitCode, calls, ret, sret, heur, lens>>

\* args = parser.parse_args(): a value outside an argument's choices is an
\* argparse error (usage on stderr, exit status 2)
ParseArgs ==
    /\ pc = "parse_args"
    /\ IF argv.language \in LanguageChoices /\ argv.compression \in CompressionChoices
       THEN pc' = "load" /\ exitCode' = exitCode
       ELSE Exit(2)
    /\ UNCHANGED <<argv, fs, fs0, linesep, text, lang,
                 summary, stdout, calls, ret, sret, heur, lens>>

\* try: text = load_text(args.input) / except Exception: print, sys.exit(1)
Load ==
    /\ pc = "load"
    /\ calls' = Called("load_text")
    /\ ret' = load_text(fs, argv.input)
    /\ IF ret'.ok
       THEN /\ text' = ret'.value
            /\ pc' = "check_nonempty"
            /\ UNCHANGED <<stdout, exitCode>>
       ELSE /\ stdout' = Append(stdout, Line("load_error", <<ret'.error>>))
            /\ Exit(1)
            /\ text' = text
    /\ UNCHANGED <<argv, fs, fs0, linesep, lang, summary, sret, heur, lens>>

CheckNonEmpty_lets_blank_through ==
    /\ pc = "check_nonempty"
    /\ pc' = "detect_lang"
    /\ UNCHANGED <<argv, fs, fs0, linesep, text, lang, summary,
                 stdout, exitCode, calls, ret, sret, heur, lens>>

\* if not text.strip(): print, sys.exit(1)
CheckNonEmpty ==
    /\ pc = "check_nonempty"
    /\ IF strip(text) = <<>>
       THEN stdout' = Append(stdout, Line("empty_file", <<>>)) /\ Exit(1)
       ELSE pc' = "detect_lang" /\ UNCHANGED <<stdout, exitCode>>
    /\ UNCHANGED <<argv, fs, fs0, linesep, text, lang, summary, calls, ret, sret, heur, lens>>

\* lang = detect_language(text) if args.language == "auto" else args.language
DetectLang ==
    /\ pc = "detect_lang"
    /\ IF argv.language = "auto"
       THEN \E outcome \in HeuristicOutcomes :
               /\ heur' = outcome
               /\ lang' = detect_language(outcome).lang
               /\ stdout' = stdout \o detect_language(outcome).out
               /\ calls' = Called("detect_language")
       ELSE lang' = argv.language /\ UNCHANGED <<heur, stdout, calls>>
    /\ pc' = "validate_lang"
    /\ UNCHANGED <<argv, fs, fs0, linesep, text, summary, exitCode, ret, sret, lens>>

ValidateLang_skips_announcement ==
    /\ pc = "validate_lang"
    /\ IF lang \notin SUPPORTED_LANGS
       THEN stdout' = Append(stdout, Line("unsupported_language", <<lang>>)) /\ Exit(1)
       ELSE pc' = "summarize" /\ UNCHANGED <<stdout, exitCode>>
    /\ UNCHANGED <<argv, fs, fs0, linesep, text, lang, summary, calls, ret, sret, heur, lens>>

\* if lang not in SUPPORTED_LANGS: print, sys.exit(1)
ValidateLang ==
    /\ pc = "validate_lang"
    /\ IF lang \notin SUPPORTED_LANGS
       THEN stdout' = Append(stdout, Line("unsupported_language", <<lang>>)) /\ Exit(1)
       ELSE pc' = "announce" /\ UNCHANGED <<stdout, exitCode>>
    /\ UNCHANGED <<argv, fs, fs0, linesep, text, lang, summary, calls, ret, sret, heur, lens>>

\* the three prints before the call of summarize_text:
\* language name, compression level, progress notice
Announce ==
    /\ pc = "announce"
    /\ stdout' = stdout \o << Line("language", <<LANG_MAP[lang], lang>>),
                              Line("compression", <<argv.compression>>),
                              Line("progress", <<>>) >>
    /\ pc' = "summarize"
    /\ UNCHANGED <<argv, fs, fs0, linesep, text, lang,
                 summary, exitCode, calls, ret, sret, heur, lens>>

\* summary = summarize_text(text, lang, args.compression); an exception it
\* raises is not caught: traceback, exit status 1
Summarize ==
    /\ pc = "summarize"
    /\ calls' = Called("summarize_text")
    /\ \E r \in SummarizeResults(text) :
          /\ sret' = r
          /\ IF r.ok
             THEN summary' = r.value /\ pc' = "display" /\ exitCode' = exitCode
             ELSE summary' = summary /\ Exit(1)
    /\ UNCHANGED <<argv, fs, fs0, linesep, text, lang, stdout, ret, heur, lens>>

\* the banner, the title, the banner, then the summary
Display ==
    /\ pc = "display"
    /\ stdout' = stdout \o << Line("banner", <<>>), Line("title", <<>>),
                              Line("banner", <<>>), Line("summary", summary) >>
    /\ pc' = "persist"
    /\ UNCHANGED <<argv, fs, fs0, linesep, text, lang,
                 summary, exitCode, calls, ret, sret, heur, lens>>

\* args.output is truthy: given and not the empty string
OutputWanted == argv.output.given /\ argv.output.value # <<>>

Persist_writes_unasked ==
    /\ pc = "persist"
    /\ fs' = [fs EXCEPT ![OutPath] = PlainFile(write_newlines(summary, linesep))]
    /\ calls' = Called("write")
    /\ stdout' = Append(stdout, Line("saved", OutPath))
    /\ Exit(0)
    /\ UNCHANGED <<argv, fs0, linesep, text, lang, summary, ret, sret, heur, lens>>

\* if args.output: open(args.output, 'w', encoding='utf-8').write(summary); print
\* then main returns.  open() can fail; that exception is not caught.
Persist ==
    /\ pc = "persist"
    /\ IF OutputWanted
       THEN \E opened \in BOOLEAN :
               IF opened
               THEN /\ fs' = [fs EXCEPT ![argv.output.value] =
                                 PlainFile(write_newlines(summary, linesep))]
                    /\ calls' = Called("write")
                    /\ stdout' = Append(stdout, Line("saved", argv.output.value))
                    /\ Exit(0)
               ELSE Exit(1) /\ UNCHANGED <<fs, calls, stdout>>
       ELSE Exit(0) /\ UNCHANGED <<fs, calls, stdout>>
    /\ UNCHANGED <<argv, fs0, linesep, text, lang, summary, ret, sret, heur, lens>>

Next ==
    \/ ParseArgs
    \/ Load
    \/ CheckNonEmpty
    \/ DetectLang
    \/ ValidateLang
    \/ Announce
    \/ Summarize
    \/ Display
    \/ Persist

Spec == Init /\ [][Next]_vars

\* ================================================================== claims
Tags(out) == [i \in 1..Len(out) |-> out[i].line]
HasLine(tag) == \E i \in 1..Len(stdout) : stdout[i].line = tag
\* empty or whitespace-only
Blank(t) == \A i \in 1..Len(t) : t[i] \in {SP, CR, LF}
Count(t, S) == Cardinality({i \in 1..Len(t) : t[i] \in S})

\* ---- C1
C1_LoadFailed == calls.load_text = 1 /\ ~ret.ok
C1_EmptyText == ret.ok /\ Blank(text) /\ pc # "check_nonempty"
C1_BadLang == lang # None /\ lang \notin {"en", "ru", "de"} /\ pc # "validate_lang"

\* C1: a run of main() in which load_text failed, or the loaded text is blank,
\* or the resolved language is unsupported has exited with status 1, its last
\* printed line is the error message, summarize_text was not invoked, no banner
\* or summary was printed, and no file was written.
C1_FailureExit ==
    (C1_LoadFailed \/ C1_EmptyText \/ C1_BadLang) =>
        /\ pc = "exited" /\ exitCode = 1
        /\ stdout # <<>>
        /\ stdout[Len(stdout)].line \in {"load_error", "empty_file", "unsupported_language"}
        /\ calls.summarize_text = 0
        /\ ~HasLine("banner") /\ ~HasLine("title") /\ ~HasLine("summary")
        /\ fs = fs0 /\ calls.write = 0

C1_Witness ==
    /\ pc = "exited" /\ exitCode = 1
    /\ C1_EmptyText /\ text # <<>>
    /\ argv.output = Given(OutPath)
    /\ Tags(stdout) = <<"empty_file">>

\* ---- C2
\* C2: detect_language returns one of en, ru, de for every text (the empty one
\* included) and every answer of the heuristic; it never raises, and an
\* unsupported code the heuristic answered is never what it returns.
C2_DetectorTotal ==
    /\ pc \in {"detect_language", "returned"}
    /\ pc = "returned" =>
          /\ lang \in {"en", "ru", "de"}
          /\ (heur.ok /\ heur.value \notin {"en", "ru", "de"}) => lang # heur.value

C2_Witness ==
    /\ pc = "returned" /\ text = <<>>
    /\ heur = Ok("fr") /\ lang = "en"

\* ---- C3
\* C3: for compression 20, 30 or 50 and every token count, the bounds handed
\* to generate satisfy 20 <= min_length <= max_length <= 512 and max_length >= 30.
C3_GenerationBounds ==
    (calls.generate = 1 /\ argv.compression \in {20, 30, 50}) =>
        /\ lens.gen_min_length <= lens.gen_max_length
        /\ lens.gen_max_length <= 512
        /\ lens.gen_max_length >= 30
        /\ lens.gen_min_length >= 20

C3_Witness ==
    /\ calls.generate = 1 /\ argv.compression = 50
    /\ lens.input_len > 1024
    /\ lens.gen_max_length = 512

\* ---- C4
\* t is an integer nearest to num/den
Nearest(t, num, den) == 2 * (den * t - num) <= den /\ 2 * (num - den * t) <= den

\* C4 as stated: the bounds handed to generate are max(30, round(n*c/100))
\* capped at 512, and max(20, round(0.7 * max_length)), round being rounding to
\* a nearest integer.
C4_Original ==
    (calls.generate = 1 /\ argv.compression \in {20, 30, 50}) =>
        /\ \E t \in 0..MaxTokens :
              /\ Nearest(t, lens.input_len * argv.compression, 100)
              /\ lens.gen_max_length = Min(512, Max(30, t))
        /\ \E u \in 0..512 :
              /\ Nearest(u, 7 * lens.gen_max_length, 10)
              /\ lens.gen_min_length = Max(20, u)

\* the values of max_length whose double product with 0.7 falls just below the
\* integer 7 * max_length / 10
BelowInteger == {90, 170, 180, 330, 340, 350, 360}

\* C4, amended: the bounds handed to generate are target_len = max(30,
\* floor(n*c/100)), max_length = min(512, target_len) and min_length = max(20,
\* floor(7*max_length/10)), one less for the max_length values of BelowInteger.
C4_Truncation ==
    (calls.generate = 1 /\ argv.compression \in {20, 30, 50}) =>
        /\ lens.gen_max_length =
              Min(512, Max(30, (lens.input_len * argv.compression) \div 100))
        /\ lens.gen_min_length =
              Max(20, (7 * lens.gen_max_length) \div 10
                      - (IF lens.gen_max_length \in BelowInteger THEN 1 ELSE 0))

C4_Witness ==
    /\ calls.generate = 1 /\ argv.compression = 30
    /\ lens.input_len = 302
    /\ lens.gen_max_length = 90 /\ lens.gen_min_length = 62

\* ---- C5
\* C5: summarize_text on a blank text returns the empty-input indicator, for
\* every language and compression, and loads neither tokenizer nor model and
\* never generates; on any other text a call that returns has loaded the
\* tokenizer once and the model once, and no call loads either twice.
C5_BlankShortCircuit ==
    /\ Blank(text) =>
          /\ calls.tokenizer_load = 0 /\ calls.model_load = 0 /\ calls.generate = 0
          /\ pc \in {"summarize_text", "returned"}
          /\ pc = "returned" => sret = Ok(EmptyIndicator)
    /\ (~Blank(text) /\ pc = "returned") =>
          calls.tokenizer_load = 1 /\ calls.model_load = 1
    /\ calls.tokenizer_load <= 1 /\ calls.model_load <= 1

C5_Witness ==
    /\ pc = "returned" /\ text = <<LF, SP>>
    /\ lang = "fr" /\ argv.compression = 100
    /\ sret = Ok(EmptyIndicator)

\* ---- C6
\* C6 as stated: a successful run with an output path leaves exactly the
\* summary in the file at that path.
C6_Original ==
    (pc = "exited" /\ exitCode = 0 /\ OutputWanted) =>
        fs[argv.output.value].bytes = summary

\* C6, amended: a file is written exactly in the runs with a non-empty output
\* path that reach the end; the write comes after the summary was displayed
\* and is followed by the confirmation; the file then holds the summary with
\* each line feed written as the platform's line separator (the summary itself
\* where that is "\n" or the summary has no line feed), whatever it held
\* before, and no other file changes.  Without an output path nothing is
\* written.
C6_Persist ==
    /\ calls.write = 1 <=> (pc = "exited" /\ exitCode = 0 /\ OutputWanted)
    /\ calls.write = 0 => fs = fs0
    /\ calls.write = 1 =>
          /\ Len(stdout) >= 5
          /\ stdout[Len(stdout)].line = "saved"
          /\ stdout[Len(stdout)].arg = argv.output.value
          /\ stdout[Len(stdout) - 1].line = "summary"
          /\ stdout[Len(stdout) - 1].arg = summary
          /\ \A q \in Paths \ {argv.output.value} : fs[q] = fs0[q]
          /\ fs[argv.output.value].kind = "file"
          /\ (linesep = <<LF>> \/ Count(summary, {LF}) = 0)
                => fs[argv.output.value].bytes = summary
          /\ SelectSeq(fs[argv.output.value].bytes, LAMBDA c : c # CR) = summary
          /\ Count(fs[argv.output.value].bytes, {CR}) =
                (IF linesep = <<LF>> THEN 0 ELSE Count(summary, {LF}))

C6_Witness ==
    /\ pc = "exited" /\ exitCode = 0
    /\ argv.output = Given(OutPath) /\ fs0[OutPath] = OldOutput
    /\ linesep = <<CR, LF>>
    /\ summary = <<"X", LF, "Y">>
    /\ fs[OutPath].bytes = <<"X", CR, LF, "Y">>

\* ---- C7
\* C7 as stated: an explicit --language outside auto, en, ru, de is rejected
\* by the VALIDATE_LANG stage with exit status 1, before the Detector and the
\* Summarizer.
C7_Original ==
    (argv.language \notin {"auto", "en", "ru", "de"} /\ pc = "exited") =>
        /\ exitCode = 1
        /\ HasLine("unsupported_language")
        /\ calls.detect_language = 0 /\ calls.summarize_text = 0

\* C7, amended: an explicit --language outside auto, en, ru, de is rejected by
\* the argument parser, before LOAD: the process exits with status 2, nothing
\* is printed on standard output, and load_text, detect_language and
\* summarize_text are not invoked.
C7_ParserRejects ==
    argv.language \notin {"auto", "en", "ru", "de"} =>
        /\ pc \in {"parse_args", "exited"}
        /\ pc = "exited" => exitCode = 2
        /\ stdout = <<>>
        /\ calls = NoCalls
        /\ fs = fs0

C7_Witness ==
    /\ pc = "exited" /\ exitCode = 2
    /\ argv.language = "fr" /\ argv.compression = 30

\* ---- C8
TxtNamed == { <<"a", ".", "t", "x", "t">>, <<"a", ".", "T", "x", "T">> }
PdfNamed == { <<"a", ".", "p", "d", "f">>, <<"a", ".", "P", "D", "F">> }
ValidUtf8(b) == \A i \in 1..Len(b) : b[i] # BAD
InputFile == fs[argv.input]

C8_Errors ==
    /\ InputFile.kind # "file" => ret = Raise("FileNotFoundError")
    /\ (InputFile.kind = "file" /\ argv.input \notin TxtNamed \cup PdfNamed)
          => ret = Raise("ValueError")

\* C8 as stated: a missing path fails with file-not-found whatever its
\* extension, an existing file that is neither .txt nor .pdf fails with
\* unsupported-format, and an existing .txt file is returned unchanged.
C8_Original ==
    pc # "load_text" =>
        /\ C8_Errors
        /\ (InputFile.kind = "file" /\ argv.input \in TxtNamed /\ ValidUtf8(InputFile.bytes))
              => ret = Ok(InputFile.bytes)

\* C8, amended: as stated, except that an existing .txt file of valid UTF-8 is
\* returned with every "\r\n" and every other "\r" read as "\n" (unchanged
\* when it holds no "\r"), and one that is not valid UTF-8 fails with a
\* decoding error.
C8_Loader ==
    pc # "load_text" =>
        /\ C8_Errors
        /\ pc = (IF ret.ok THEN "returned" ELSE "raised")
        /\ (InputFile.kind = "file" /\ argv.input \in TxtNamed) =>
              IF ValidUtf8(InputFile.bytes)
              THEN /\ ret.ok
                   /\ Count(InputFile.bytes, {CR}) = 0 => ret.value = InputFile.bytes
                   /\ Count(ret.value, {CR}) = 0
                   /\ SelectSeq(ret.value, LAMBDA c : c # LF)
                         = SelectSeq(InputFile.bytes, LAMBDA c : c \notin {CR, LF})
                   /\ Count(ret.value, {LF}) = Count(InputFile.bytes, {CR, LF})
                         - Cardinality({i \in 1..(Len(InputFile.bytes) - 1) :
                              InputFile.bytes[i] = CR /\ InputFile.bytes[i + 1] = LF})
              ELSE ret = Raise("UnicodeDecodeError")

C8_Witness ==
    /\ pc = "returned"
    /\ argv.input = <<"a", ".", "T", "x", "T">>
    /\ InputFile.bytes = <<CR, LF>>
    /\ ret = Ok(<<LF>>)

\* ---- C9
Announced == {"language", "compression", "progress"}

\* C9 as stated: the language name, the compression level and the progress
\* notice are printed only once summarize_text has completed.
C9_Original ==
    \A i \in 1..Len(stdout) : stdout[i].line \in Announced => sret.ok

Warned == IF HasLine("fallback_warning") THEN 1 ELSE 0

StageEdges ==
    { <<"parse_args", "load">>, <<"load", "check_nonempty">>,
      <<"check_nonempty", "detect_lang">>, <<"detect_lang", "validate_lang">>,
      <<"validate_lang", "announce">>, <<"announce", "summarize">>,
      <<"summarize", "display">>, <<"display", "persist">>, <<"persist", "exited">>,
      <<"parse_args", "exited">>, <<"load", "exited">>, <<"check_nonempty", "exited">>,
      <<"validate_lang", "exited">>, <<"summarize", "exited">> }

C9_Output ==
    /\ calls.summarize_text = 0 =>
          ~HasLine("banner") /\ ~HasLine("title") /\ ~HasLine("summary")
    /\ pc = "summarize" =>
          Tags(SubSeq(stdout, Warned + 1, Len(stdout)))
             = <<"language", "compression", "progress">>
    /\ (calls.summarize_text = 1 /\ ~sret.ok) =>
          /\ pc = "exited" /\ exitCode = 1
          /\ Tags(SubSeq(stdout, Warned + 1, Len(stdout)))
                = <<"language", "compression", "progress">>
    /\ (calls.summarize_text = 1 /\ sret.ok /\ pc # "display") =>
          /\ Tags(SubSeq(stdout, Warned + 1, Warned + 7))
                = <<"language", "compression", "progress",
                    "banner", "title", "banner", "summary">>
          /\ stdout[Warned + 1].arg = <<LANG_MAP[lang], lang>>
          /\ stdout[Warned + 2].arg = <<argv.compression>>
          /\ stdout[Warned + 7].arg = summary

\* C9, amended: the stages run in the order LOAD, CHECK_NONEMPTY, DETECT_LANG,
\* VALIDATE_LANG, SUMMARIZE, DISPLAY, [PERSIST]; the language name, the
\* compression level and the progress notice are printed after VALIDATE_LANG
\* and before summarize_text is called; after it returns the banner, the
\* title, the banner and the summary are printed.  A run in which the
\* Summarizer fails has printed the three status lines and neither banner nor
\* summary.
C9_StageOrder ==
    /\ [](C9_Output)
    /\ [][pc' # pc => <<pc, pc'>> \in StageEdges]_vars

C9_Witness ==
    /\ pc = "exited" /\ exitCode = 1
    /\ calls.summarize_text = 1 /\ ~sret.ok
    /\ Tags(stdout) = <<"language", "compression", "progress">>

\* ---- C10
\* C10: detect_language prints its fallback warning exactly when the heuristic
\* answered a code outside en, ru, de, and the warning names that code; when
\* the heuristic raises the result is en without a warning; a supported code
\* is returned as it is, without a warning.
C10_FallbackWarning ==
    pc = "returned" =>
        /\ (heur.ok /\ heur.value \notin {"en", "ru", "de"}) =>
              /\ Tags(stdout) = <<"fallback_warning">>
              /\ stdout[1].arg = <<heur.value>>
              /\ lang = "en"
        /\ ~heur.ok => (stdout = <<>> /\ lang = "en")
        /\ (heur.ok /\ heur.value \in {"en", "ru", "de"}) =>
              (stdout = <<>> /\ lang = heur.value)

C10_Witness ==
    /\ pc = "returned"
    /\ ~heur.ok
    /\ lang = "en" /\ stdout = <<>>

====
